---- MODULE Spec2Model ----
(***************************************************************************)
(* starpls: the type inference engine of crates/starpls_hir (typeck.rs),   *)
(* its cancellation controller (GlobalCtxt, CancelGuard, TyCtxt) and the   *)
(* request dispatcher of crates/starpls (dispatcher.rs).                   *)
(*                                                                         *)
(* Specifications:                                                         *)
(*   SpecSubst     Ty::substitute applied to bounded type templates        *)
(*   SpecCatch     Cancelled::catch applied to every behaviour of f        *)
(*   SpecDispatch  RequestDispatcher::on / finish and the worker tasks     *)
(*   SpecInfer     one session calling TyCtxt::infer_expr over families of *)
(*                 one-statement files                                     *)
(*   Spec          sessions in GlobalCtxt::with_tcx, CancelGuards, and     *)
(*                 TyCtxt::infer_expr over small lowered modules           *)
(*   SpecLive      Spec with the scheduling the code relies on             *)
(*   SpecFunction  Function::ty (api.rs) applied to bounded signatures     *)
(***************************************************************************)
EXTENDS Integers, Sequences, FiniteSets, TLC

VARIABLES
    \* ---- Ty::substitute (SpecSubst)
    sTy,        \* the template handed to substitute
    sArgs,      \* the substitution arguments
    sNum,       \* num_vars of the identity substitution (-1: arbitrary args)
    sOut,       \* result of substitute, NoTy before the call
    \* ---- Cancelled::catch (SpecCatch)
    cF,         \* behaviour of the closure f, per caller
    cOut,       \* what catch did, per caller
    \* ---- RequestDispatcher (SpecDispatch)
    dOrig,      \* the request handed to RequestDispatcher::new
    dChain,     \* R::METHOD of the on::<R> calls the caller makes, in order
    dReq,       \* self.req: <<>> for None, <<req>> for Some(req)
    dPos,       \* number of on calls made
    dPc,        \* "on", "finished", or "panicked" (parse's expect failed)
    dSpawned,   \* closures handed to task_pool_handle.spawn, in order
    dDone,      \* per finished closure: who spawned it, f's result, its Tasks
    \* ---- GlobalCtxt, CancelGuard, TyCtxt (Spec)
    prog,       \* the lowered file the database holds
    memo,       \* cx.type_of_expr: the cached ExprIds of the file -> Ty
    diags,      \* cx.diagnostics
    cancelled,  \* shared_state.cancelled
    locked,     \* whether the Mutex around the InferenceCtxt is held
    pc,         \* per session: "idle", "in_tcx", "unwinding" or "aborted"
    held,       \* number of CancelGuards alive
    dropPc,     \* the CancelGuard being dropped: "-", "locked" or "stored"
    last,       \* the last call a session made inside with_tcx
    stale,      \* the cache holds entries older than the last flag clear
    \* ---- Function::ty (SpecFunction)
    fParams,    \* func.params(db) of the function
    fRet,       \* func.ret_ty(db)
    fTy,        \* what Function::ty returned, NoTy before the call
    fOut        \* the return type instantiated with fTy's substitution

substVars == <<sTy, sArgs, sNum, sOut>>
catchVars == <<cF, cOut>>
dispVars == <<dOrig, dChain, dReq, dPos, dPc, dSpawned, dDone>>
ctlVars == <<prog, memo, diags, cancelled, locked, pc, held, dropPc, last, stale>>
fnVars == <<fParams, fRet, fTy, fOut>>
substOthers == <<catchVars, dispVars, ctlVars, fnVars>>
catchOthers == <<substVars, dispVars, ctlVars, fnVars>>
dispOthers == <<substVars, catchVars, ctlVars, fnVars>>
ctlOthers == <<substVars, catchVars, dispVars, fnVars>>
fnOthers == <<substVars, catchVars, dispVars, ctlVars>>
vars == <<sTy, sArgs, sNum, sOut, cF, cOut,
          dOrig, dChain, dReq, dPos, dPc, dSpawned, dDone,
          prog, memo, diags, cancelled, locked, pc, held, dropPc, last, stale,
          fParams, fRet, fTy, fOut>>

----------------------------------------------------------------------------
(* Bounds of the model.                                                    *)

\* largest BoundVar index that occurs in a template
MaxVar == 2
\* largest num_vars handed to Substitution::new_identity
MaxNumVars == 3
\* number of callers of Cancelled::catch
NumCallers == 2
\* closures return values 0..MaxValue
MaxValue == 2
\* largest number of on calls before finish
MaxHandlers == 3
\* request ids are 1..MaxReqId
MaxReqId == 2
\* number of sessions (threads that call with_tcx)
NumSessions == 2
\* CancelGuards alive at once
MaxGuards == 2
\* a run stops growing cx.diagnostics at this length
MaxDiags == 3
\* a concurrent cancel lands before the k-th load of the flag, k <= MaxFlip
MaxFlip == 3
\* stack depth: nested infer_expr calls before the stack is exhausted
MaxDepth == 8

----------------------------------------------------------------------------
(* TyKind.  A Ty is an interned TyKind, so equality of Ty is structural    *)
(* equality of the kind tree.  Every kind is a record of one shape:        *)
(*   k  the variant,  a  the Ty operands,  n  the usize / function operand *)

Nullary(k) == [k |-> k, a |-> <<>>, n |-> 0]
unbound == Nullary("Unbound")
unknown == Nullary("Unknown")
any == Nullary("Any")
none == Nullary("None")
bool == Nullary("Bool")
int == Nullary("Int")
float == Nullary("Float")
string == Nullary("String")
bytes == Nullary("Bytes")
List(ty) == [k |-> "List", a |-> <<ty>>, n |-> 0]
Tuple(tys) == [k |-> "Tuple", a |-> tys, n |-> 0]
Dict(key_ty, value_ty) == [k |-> "Dict", a |-> <<key_ty, value_ty>>, n |-> 0]
BuiltinFunction(func, args) == [k |-> "BuiltinFunction", a |-> args, n |-> func]
BoundVar(index) == [k |-> "BoundVar", a |-> <<>>, n |-> index]

\* not a TyKind: "no value" (the call has not returned)
NoTy == Nullary("-")
\* not a TyKind: the call panicked (slice index out of range)
IndexPanic == Nullary("!index out of bounds")

\* Substitution::new_identity: args[index] = BoundVar(index), index in 0..num_vars-1
new_identity_shifted(num_vars) == [i \in 1..num_vars |-> BoundVar(i)]
new_identity(num_vars) == [i \in 1..num_vars |-> BoundVar(i - 1)]

\* Ty::substitute (and Substitution::substitute for the BuiltinFunction case).
\* args is a Rust slice indexed from 0; args[*index] panics when out of range,
\* and the panic unwinds through every enclosing call.
RECURSIVE substitute(_, _)
substitute(ty, args) ==
    LET sub == [i \in 1..Len(ty.a) |-> substitute(ty.a[i], args)]
        panicked == \E i \in 1..Len(ty.a) : sub[i] = IndexPanic
    IN  CASE ty.k = "List" ->
               IF panicked THEN IndexPanic ELSE List(sub[1])
          [] ty.k = "Tuple" ->
               IF panicked THEN IndexPanic ELSE Tuple(sub)
          [] ty.k = "Dict" ->
               IF panicked THEN IndexPanic ELSE Dict(sub[1], sub[2])
          [] ty.k = "BuiltinFunction" ->
               IF panicked THEN IndexPanic ELSE BuiltinFunction(ty.n, sub)
          [] ty.k = "BoundVar" ->
               IF ty.n < Len(args) THEN args[ty.n + 1] ELSE IndexPanic
          [] OTHER -> ty

\* the largest BoundVar index in ty, -1 when ty has none
RECURSIVE MaxBoundVar(_)
MaxBoundVar(ty) ==
    IF ty.k = "BoundVar" THEN ty.n
    ELSE LET RECURSIVE upto(_)
             upto(i) == IF i = 0 THEN -1
                        ELSE LET m == MaxBoundVar(ty.a[i])
                                 r == upto(i - 1)
                             IN  IF m > r THEN m ELSE r
         IN  upto(Len(ty.a))

\* bounded templates: ground kinds and bound variables, wrapped up to twice
Depth0 == {int, string, any} \cup {BoundVar(i) : i \in 0..MaxVar}
Seqs2(S) == {<<>>} \cup {<<x>> : x \in S} \cup {<<x, y>> : x \in S, y \in S}
Depth1 ==
    {List(t) : t \in Depth0}
      \cup {Tuple(ts) : ts \in Seqs2(Depth0)}
      \cup {Dict(x, y) : x \in Depth0, y \in Depth0}
      \cup {BuiltinFunction(1, ts) : ts \in Seqs2(Depth0)}
Depth2 ==
    {List(t) : t \in Depth1}
      \cup {Tuple(<<int, t>>) : t \in Depth1}
      \cup {Dict(string, t) : t \in Depth1}
      \cup {BuiltinFunction(1, <<t>>) : t \in Depth1}
Templates == Depth0 \cup Depth1 \cup Depth2

InitSubst ==
    /\ sTy \in Templates
    /\ sNum \in -1..MaxNumVars
    /\ sArgs \in IF sNum >= 0 THEN {new_identity(sNum)}
                 ELSE {<<int>>, <<List(int), string>>}
    /\ sOut = NoTy

\* one call  ty.substitute(&args)
Substitute ==
    /\ sOut = NoTy
    /\ sOut' = substitute(sTy, sArgs)
    /\ UNCHANGED <<sTy, sArgs, sNum>>
    /\ UNCHANGED substOthers

----------------------------------------------------------------------------
(* Function::ty (api.rs).  A function of the builtin catalog is given by   *)
(* its parameters and its return type; a parameter is Positional, Keyword  *)
(* or ArgsList with a type, or KwargsDict.  api.rs names the generic kind  *)
(* IntrinsicFunction(func, Substitution); typeck.rs has the same shape as  *)
(* BuiltinFunction(func, Substitution).                                    *)

Param(kind, ty) == [kind |-> kind, ty |-> ty]
KwargsDict == [kind |-> "KwargsDict", ty |-> NoTy]

\* the greatest element of a nonempty set of numbers
Max(S) == CHOOSE x \in S : \A y \in S : y <= x

\* num_vars of Function::ty: the maximum over the types of the parameters
\* that have one, and the return type, of  index  for BoundVar(index) and 0
\* for every other kind
num_vars(params, ret_type) ==
    Max({IF params[i].ty.k = "BoundVar" THEN params[i].ty.n ELSE 0 :
            i \in {j \in 1..Len(params) : params[j].kind # "KwargsDict"}}
          \cup {IF ret_type.k = "BoundVar" THEN ret_type.n ELSE 0})

\* Function::ty for a generic function of the catalog
Function_ty(func, params, ret_type) ==
    BuiltinFunction(func, new_identity(num_vars(params, ret_type)))

\* bounded signatures
ParamTys == {int, List(BoundVar(0))} \cup {BoundVar(i) : i \in 0..MaxVar}
Params ==
    {KwargsDict}
      \cup {Param(kind, ty) :
               kind \in {"Positional", "Keyword", "ArgsList"}, ty \in ParamTys}
RetTys == Depth0 \cup Depth1

InitFunction ==
    /\ fParams \in Seqs2(Params)
    /\ fRet \in RetTys
    /\ fTy = NoTy
    /\ fOut = NoTy

\* one call  function.ty(db)
FunctionTy ==
    /\ fTy = NoTy
    /\ fTy' = Function_ty(1, fParams, fRet)
    /\ UNCHANGED <<fParams, fRet, fOut>>
    /\ UNCHANGED fnOthers

\* a call of the function: fun.ret_ty(db).substitute(&subst.args)
Instantiate ==
    /\ fTy # NoTy
    /\ fOut = NoTy
    /\ fOut' = substitute(fRet, fTy.a)
    /\ UNCHANGED <<fParams, fRet, fTy>>
    /\ UNCHANGED fnOthers

----------------------------------------------------------------------------
(* Cancelled::catch.  The closure f either returns a value or unwinds with *)
(* a payload: a salsa::Cancelled, a TypecheckCancelled, or anything else.  *)

Payloads == {"salsa::Cancelled", "TypecheckCancelled", "other"}
FBehaviours ==
    [b : {"return"}, v : 0..MaxValue, p : {"-"}]
      \cup [b : {"unwind"}, v : 0..MaxValue, p : Payloads]
NotCalled == [r : {"-"}, v : {0}, p : {"-"}]

\* catch that swallows every unwind
catch_all(f) ==
    IF f.b = "return" THEN [r |-> "Ok", v |-> f.v, p |-> "-"]
    ELSE IF f.p = "salsa::Cancelled" THEN [r |-> "Err", v |-> 0, p |-> "Salsa"]
    ELSE [r |-> "Err", v |-> 0, p |-> "Typecheck"]
\* Cancelled::catch: r is Ok (v the value), Err (p the variant) or
\* resume_unwind (p the payload's type, v its content)
catch(f) ==
    IF f.b = "return" THEN [r |-> "Ok", v |-> f.v, p |-> "-"]
    ELSE IF f.p = "salsa::Cancelled" THEN [r |-> "Err", v |-> 0, p |-> "Salsa"]
    ELSE IF f.p = "TypecheckCancelled" THEN [r |-> "Err", v |-> 0, p |-> "Typecheck"]
    ELSE [r |-> "resume_unwind", v |-> f.v, p |-> f.p]

Callers == 1..NumCallers

InitCatch ==
    /\ cF \in [Callers -> FBehaviours]
    /\ cOut = [c \in Callers |-> CHOOSE x \in NotCalled : TRUE]

Catch(c) ==
    /\ cOut[c].r = "-"
    /\ cOut' = [cOut EXCEPT ![c] = catch(cF[c])]
    /\ UNCHANGED cF
    /\ UNCHANGED catchOthers

----------------------------------------------------------------------------
(* RequestDispatcher.  A request is (id, method, params); params is a JSON *)
(* value, here its shape and one content value.  on::<R> deserializes the  *)
(* params as R::Params, which succeeds when the shape is the one R expects.*)

Methods == {"textDocument/hover", "textDocument/completion"}
ReqMethods == Methods \cup {"workspace/symbol"}
Shapes == {"HoverParams", "CompletionParams"}
ParamsOf(method) ==
    IF method = "textDocument/hover" THEN "HoverParams" ELSE "CompletionParams"
Requests == [id : 1..MaxReqId, method : ReqMethods,
             params : [shape : Shapes, v : 0..1]]

\* what a handler f(&snapshot, params) returns
HandlerResults ==
    [r : {"Ok"}, v : 0..MaxValue]
      \cup [r : {"Err"}, v : {"Cancelled", "bad position", "no such file"}]
\* the closure finish spawns calls no handler
NoResult == [r |-> "-", v |-> 0]

\* Task: ResponseReady(Response) or Retry(Request); a Response carries the id
\* and either a result or an error (code, message)
ResponseReady(id, kind, code, body) ==
    [t |-> "ResponseReady", id |-> id, kind |-> kind, code |-> code,
     body |-> body, req |-> <<>>]
Retry(req) ==
    [t |-> "Retry", id |-> req.id, kind |-> "-", code |-> "-", body |-> <<>>,
     req |-> <<req>>]

\* serde_json::from_value(req.params.clone()): <<>> when it fails
from_value(method, params) ==
    IF params.shape = ParamsOf(method) THEN <<params.v>> ELSE <<>>

\* the closure of on that answers a cancelled run like any other error
on_task_no_retry(req, res) ==
    IF res.r = "Ok" THEN ResponseReady(req.id, "ok", "-", <<res.v>>)
    ELSE ResponseReady(req.id, "err", "RequestFailed", <<res.v>>)
\* the closure of on that retries on every error
on_task_retry_all(req, res) ==
    IF res.r = "Ok" THEN ResponseReady(req.id, "ok", "-", <<res.v>>)
    ELSE Retry(req)
\* the closure on spawns, given what f returned
on_task(req, res) ==
    IF res.r = "Ok" THEN ResponseReady(req.id, "ok", "-", <<res.v>>)
    ELSE IF res.v = "Cancelled" THEN Retry(req)
    ELSE ResponseReady(req.id, "err", "RequestFailed", <<res.v>>)

\* the closure finish spawns
finish_task(req) ==
    ResponseReady(req.id, "err", "MethodNotFound", <<"method not found">>)

\* parse that takes the request whatever its method
parse_any(req, method) ==
    IF req = <<>> THEN [out |-> "None", req |-> <<>>, params |-> <<>>]
    ELSE IF from_value(method, req[1].params) = <<>>
         THEN [out |-> "panic", req |-> <<>>, params |-> <<>>]
         ELSE [out |-> "Some", req |-> <<>>,
               params |-> from_value(method, req[1].params)]
\* RequestDispatcher::parse::<R>: out is Some, None or panic; req is self.req
\* afterwards
parse(req, method) ==
    IF req = <<>> THEN [out |-> "None", req |-> <<>>, params |-> <<>>]
    ELSE IF req[1].method = method
         THEN IF from_value(method, req[1].params) = <<>>
              THEN [out |-> "panic", req |-> <<>>, params |-> <<>>]
              ELSE [out |-> "Some", req |-> <<>>,
                    params |-> from_value(method, req[1].params)]
         ELSE [out |-> "None", req |-> req, params |-> <<>>]

Chains == UNION {[1..n -> Methods] : n \in 0..MaxHandlers}

InitDispatch ==
    /\ dOrig \in Requests
    /\ dChain \in Chains
    /\ dReq = <<dOrig>>
    /\ dPos = 0
    /\ dPc = "on"
    /\ dSpawned = <<>>
    /\ dDone = <<>>

\* the next call  dispatcher.on::<R>(f)
On ==
    /\ dPc = "on"
    /\ dPos < Len(dChain)
    /\ LET p == parse(dReq, dChain[dPos + 1])
       IN  /\ dReq' = p.req
           /\ dPos' = dPos + 1
           /\ dPc' = IF p.out = "panic" THEN "panicked" ELSE dPc
           /\ dSpawned' =
                IF p.out = "Some"
                THEN Append(dSpawned, [by |-> dPos + 1, req |-> dReq[1],
                                       params |-> p.params])
                ELSE dSpawned
    /\ UNCHANGED <<dOrig, dChain, dDone>>
    /\ UNCHANGED dispOthers

\* dispatcher.finish(), after the on calls
Finish ==
    /\ dPc = "on"
    /\ dPos = Len(dChain)
    /\ dPc' = "finished"
    /\ dReq' = <<>>
    /\ dSpawned' =
         IF dReq = <<>> THEN dSpawned
         ELSE Append(dSpawned, [by |-> 0, req |-> dReq[1], params |-> <<>>])
    /\ UNCHANGED <<dOrig, dChain, dPos, dDone>>
    /\ UNCHANGED dispOthers

Running == {i \in 1..Len(dSpawned) : \A j \in 1..Len(dDone) : dDone[j].of # i}

\* a worker thread runs spawned closure i; the handler returns res
Work(i, res) ==
    /\ i \in Running
    /\ dSpawned[i].by # 0
    /\ dDone' = Append(dDone, [of |-> i, res |-> res,
                               task |-> on_task(dSpawned[i].req, res)])
    /\ UNCHANGED <<dOrig, dChain, dReq, dPos, dPc, dSpawned>>
    /\ UNCHANGED dispOthers

\* a worker thread runs the closure finish spawned
WorkNotFound(i) ==
    /\ i \in Running
    /\ dSpawned[i].by = 0
    /\ dDone' = Append(dDone, [of |-> i, res |-> NoResult,
                               task |-> finish_task(dSpawned[i].req)])
    /\ UNCHANGED <<dOrig, dChain, dReq, dPos, dPc, dSpawned>>
    /\ UNCHANGED dispOthers

----------------------------------------------------------------------------
(* The database a session reads: one lowered file.  An Expr is             *)
(*   kind  the variant,  kids  its child ExprIds in source order (a Dict's *)
(*   entries as key, value, key, value, ...),  tag  the name, literal      *)
(*   kind, operator class ("-" when the operator is missing) or field.     *)
(* ExprIds are 1..Len(exprs); 0 stands for None.  The resolver's answer    *)
(* for a Name is the last declaration it finds: d is "None" (resolve_name  *)
(* returned None), "Empty" (no declaration), "Variable" (with id and       *)
(* source, source 0 for None), "Function", "Parameter" or "LoadItem".      *)
(* parent[e] is the syntax parent of e's node: k is "AssignStmt" (targets  *)
(* its lhs, empty when absent), "ForStmt" (targets, has = FALSE when       *)
(* absent) or "Other".  mapped is the domain of source_map.expr_map_back.  *)

E(kind, kids, tag) == [kind |-> kind, kids |-> kids, tag |-> tag]
NameE(name) == E("Name", <<>>, name)
Lit(literal) == E("Literal", <<>>, literal)
NoDecl == [d |-> "None", id |-> 0, source |-> 0]
Variable(id, source) == [d |-> "Variable", id |-> id, source |-> source]
OtherDecl(d) == [d |-> d, id |-> 0, source |-> 0]
OtherParent == [k |-> "Other", has |-> FALSE, targets |-> <<>>]
AssignStmt(lhs) == [k |-> "AssignStmt", has |-> TRUE, targets |-> <<lhs>>]
ForStmt(targets) == [k |-> "ForStmt", has |-> TRUE, targets |-> targets]

\* x = 1 ; y = x
FileAssign ==
    [exprs |-> <<NameE("x"), Lit("Int"), NameE("y"), NameE("x")>>,
     decl |-> <<Variable(1, 2), NoDecl, Variable(3, 4), Variable(1, 2)>>,
     parent |-> <<OtherParent, AssignStmt(1), OtherParent, AssignStmt(3)>>,
     mapped |-> 1..4]

\* a[0], (b, c) = 5 ; b
FileUnpackInt ==
    [exprs |-> <<NameE("a"), Lit("Int"), E("Index", <<1, 2>>, "-"), NameE("b"),
                 NameE("c"), E("Tuple", <<4, 5>>, "-"),
                 E("Tuple", <<3, 6>>, "-"), Lit("Int"), NameE("b")>>,
     decl |-> <<OtherDecl("Parameter"), NoDecl, NoDecl, Variable(4, 8),
                Variable(5, 8), NoDecl, NoDecl, NoDecl, Variable(4, 8)>>,
     parent |-> <<OtherParent, OtherParent, OtherParent, OtherParent,
                  OtherParent, OtherParent, OtherParent, AssignStmt(7),
                  OtherParent>>,
     mapped |-> 1..9]

\* for i in [1, 2]: i
FileFor ==
    [exprs |-> <<Lit("Int"), Lit("Int"), E("List", <<1, 2>>, "-"), NameE("i"),
                 NameE("i")>>,
     decl |-> <<NoDecl, NoDecl, NoDecl, Variable(4, 3), Variable(4, 3)>>,
     parent |-> <<OtherParent, OtherParent, ForStmt(<<4>>), OtherParent,
                  OtherParent>>,
     mapped |-> 1..5]

\* [1, "a", 2.0] ; -"s" ; u   (u unresolved)
FileList ==
    [exprs |-> <<Lit("Int"), Lit("String"), Lit("Float"),
                 E("List", <<1, 2, 3>>, "-"), Lit("String"),
                 E("Unary", <<5>>, "Arith"), NameE("u")>>,
     decl |-> <<NoDecl, NoDecl, NoDecl, NoDecl, NoDecl, NoDecl, NoDecl>>,
     parent |-> [e \in 1..7 |-> OtherParent],
     mapped |-> 1..7]

\* x = x + 1
FileSelfRef ==
    [exprs |-> <<NameE("x"), NameE("x"), Lit("Int"),
                 E("Binary", <<2, 3>>, "Arith")>>,
     decl |-> <<Variable(1, 4), Variable(1, 4), NoDecl, NoDecl>>,
     parent |-> <<OtherParent, OtherParent, OtherParent, AssignStmt(1)>>,
     mapped |-> 1..4]

Files == <<FileAssign, FileUnpackInt, FileFor, FileList, FileSelfRef>>

\* Families of one-statement files.  An operand is one of these expressions,
\* laid out after the first  base  expressions of the file; its root is the
\* last one:
\*   Int 1   Float 1.0   String "s"   Any p (a parameter)   Unknown (a unary
\*   expression whose operator is missing)   List [1]   ListList [[1]]
\*   Dict {1: "s"}   Fn [1].pop   Tuple {1: "s"}.popitem()
Operand(a, base) ==
    CASE a = "Int" -> <<Lit("Int")>>
      [] a = "Float" -> <<Lit("Float")>>
      [] a = "String" -> <<Lit("String")>>
      [] a = "Any" -> <<NameE("p")>>
      [] a = "Unknown" -> <<Lit("Int"), E("Unary", <<base + 1>>, "-")>>
      [] a = "List" -> <<Lit("Int"), E("List", <<base + 1>>, "-")>>
      [] a = "ListList" ->
           <<Lit("Int"), E("List", <<base + 1>>, "-"),
             E("List", <<base + 2>>, "-")>>
      [] a = "Dict" ->
           <<Lit("Int"), Lit("String"), E("Dict", <<base + 1, base + 2>>, "-")>>
      [] a = "Fn" ->
           <<Lit("Int"), E("List", <<base + 1>>, "-"),
             E("Dot", <<base + 2>>, "pop")>>
      [] a = "Tuple" ->
           <<Lit("Int"), Lit("String"), E("Dict", <<base + 1, base + 2>>, "-"),
             E("Dot", <<base + 3>>, "popitem"), E("Call", <<base + 4>>, "-")>>

\* A target pattern laid out after the first n expressions; lhs is its root,
\* targets the for statement's list of targets:
\*   x     a, b     [a, (b)]     (a, b), c     and for a for statement also
\*   the two targets a and b
Pattern(pat, n) ==
    CASE pat = "x" ->
           [exprs |-> <<NameE("x")>>, targets |-> <<n + 1>>]
      [] pat = "a, b" ->
           [exprs |-> <<NameE("a"), NameE("b"), E("Tuple", <<n + 1, n + 2>>, "-")>>,
            targets |-> <<n + 3>>]
      [] pat = "[a, (b)]" ->
           [exprs |-> <<NameE("a"), NameE("b"), E("Paren", <<n + 2>>, "-"),
                        E("List", <<n + 1, n + 3>>, "-")>>,
            targets |-> <<n + 4>>]
      [] pat = "(a, b), c" ->
           [exprs |-> <<NameE("a"), NameE("b"), E("Tuple", <<n + 1, n + 2>>, "-"),
                        NameE("c"), E("Tuple", <<n + 3, n + 4>>, "-")>>,
            targets |-> <<n + 5>>]
      [] pat = "a b" ->
           [exprs |-> <<NameE("a"), NameE("b")>>, targets |-> <<n + 1, n + 2>>]

CompClause(targets) == [k |-> "CompClause", has |-> TRUE, targets |-> targets]

\* The lowered file with these expressions.  Every name but p is a variable
\* whose declaration is its first occurrence, bound from the expression src;
\* par is the syntax parent of src; the expressions in unmapped have no
\* entry in expr_map_back.
Module(exprs, src, par, unmapped) ==
    [exprs |-> exprs,
     decl |-> [e \in 1..Len(exprs) |->
                 IF exprs[e].kind # "Name" THEN NoDecl
                 ELSE IF exprs[e].tag = "p" THEN OtherDecl("Parameter")
                 ELSE Variable(
                          CHOOSE t \in 1..e :
                              /\ exprs[t] = exprs[e]
                              /\ \A u \in 1..(t - 1) : exprs[u] # exprs[e],
                          src)],
     parent |-> [e \in 1..Len(exprs) |-> IF e = src THEN par ELSE OtherParent],
     mapped |-> (1..Len(exprs)) \ unmapped]

\* <operand a> <op> <operand b>
BinaryFile(a, b, op) ==
    Module(Operand(a, 0) \o Operand(b, Len(Operand(a, 0)))
             \o <<E("Binary",
                    <<Len(Operand(a, 0)),
                      Len(Operand(a, 0)) + Len(Operand(b, 0))>>, op)>>,
           0, OtherParent, {})
\* <op> <operand a>; the unary expression is unmapped when back is FALSE
UnaryFile(a, op, back) ==
    Module(Operand(a, 0) \o <<E("Unary", <<Len(Operand(a, 0))>>, op)>>,
           0, OtherParent,
           IF back THEN {} ELSE {Len(Operand(a, 0)) + 1})
\* <operand a>[<operand b>]
IndexFile(a, b) ==
    Module(Operand(a, 0) \o Operand(b, Len(Operand(a, 0)))
             \o <<E("Index",
                    <<Len(Operand(a, 0)),
                      Len(Operand(a, 0)) + Len(Operand(b, 0))>>, "-")>>,
           0, OtherParent, {})
\* <operand a>(); the call is unmapped when back is FALSE
CallFile(a, back) ==
    Module(Operand(a, 0) \o <<E("Call", <<Len(Operand(a, 0))>>, "-")>>,
           0, OtherParent,
           IF back THEN {} ELSE {Len(Operand(a, 0)) + 1})
\* [l1, l2, ...] of literals
ListFile(lits) ==
    Module([i \in 1..Len(lits) |-> Lit(lits[i])]
             \o <<E("List", [i \in 1..Len(lits) |-> i], "-")>>,
           0, OtherParent, {})
\* {l1: l2, l3: l4, ...} of literals
DictFile(lits) ==
    Module([i \in 1..Len(lits) |-> Lit(lits[i])]
             \o <<E("Dict", [i \in 1..Len(lits) |-> i], "-")>>,
           0, OtherParent, {})
\* <pattern> = <operand a> ; a use of the pattern's first name
AssignFile(pat, a) ==
    Module(Operand(a, 0) \o Pattern(pat, Len(Operand(a, 0))).exprs
             \o <<Pattern(pat, Len(Operand(a, 0))).exprs[1]>>,
           Len(Operand(a, 0)),
           AssignStmt(Pattern(pat, Len(Operand(a, 0))).targets[1]), {})
\* for <pattern> in <operand a>: a use of the pattern's first name
ForFile(pat, a) ==
    Module(Operand(a, 0) \o Pattern(pat, Len(Operand(a, 0))).exprs
             \o <<Pattern(pat, Len(Operand(a, 0))).exprs[1]>>,
           Len(Operand(a, 0)),
           ForStmt(Pattern(pat, Len(Operand(a, 0))).targets), {})
\* [x for x in <operand a>]
CompFile(a) ==
    Module(Operand(a, 0)
             \o <<NameE("x"), NameE("x"),
                  E("ListComp", <<Len(Operand(a, 0)) + 2>>, "-")>>,
           Len(Operand(a, 0)),
           CompClause(<<Len(Operand(a, 0)) + 1>>), {})

Operands == {"Int", "Float", "String", "Any", "Unknown", "List", "Dict", "Fn"}
Sources == {"Int", "Any", "List", "ListList", "Tuple"}
Literals == {"Int", "String", "Float"}
LitSeqs(n) == [1..n -> Literals]

\* the files of the families
Family ==
    {BinaryFile(a, b, op) :
        a \in Operands \ {"Fn"}, b \in Operands \ {"Fn"},
        op \in {"Arith", "Bitwise", "Cmp"}}
      \cup {UnaryFile(a, op, back) :
              a \in Operands, op \in {"Arith", "Inv", "Not"}, back \in BOOLEAN}
      \cup {IndexFile(a, b) : a \in Operands, b \in {"Int", "String", "Any", "List"}}
      \cup {CallFile(a, back) : a \in Operands \cup {"Tuple"}, back \in BOOLEAN}
      \cup {ListFile(l) : l \in LitSeqs(0) \cup LitSeqs(1) \cup LitSeqs(2) \cup LitSeqs(3)}
      \cup {DictFile(l) : l \in LitSeqs(0) \cup LitSeqs(2) \cup LitSeqs(4)}
      \cup {AssignFile(pat, a) :
              pat \in {"x", "a, b", "[a, (b)]", "(a, b), c"}, a \in Sources}
      \cup {ForFile(pat, a) : pat \in {"x", "a, b", "a b"}, a \in Sources}
      \cup {CompFile(a) : a \in Sources}

\* every file the database may hold
Modules == {Files[i] : i \in 1..Len(Files)} \cup Family

\* lower(db, file).module(db).exprs
Exprs == prog.exprs
ExprIds == 1..Len(Exprs)
\* Resolver::new_for_expr(db, file, expr).resolve_name(name), its last element
resolve_name(e) == prog.decl[e]
\* the syntax parent of the node expr_map_back gives for e
ParentOf(e) == prog.parent[e]
\* source_map.expr_map_back.get(&e).is_some()
expr_map_back(e) == e \in prog.mapped
\* Expr::walk_child_exprs
walk_child_exprs(e) == Exprs[e].kids

----------------------------------------------------------------------------
(* The builtin catalog: per class its fields (name and Binders), per       *)
(* builtin function its return type.                                       *)

\* BuiltinFunction ids
FnPop == BuiltinFunction(1, new_identity(1))
FnGet == BuiltinFunction(2, new_identity(2))
FnUpper == BuiltinFunction(3, <<>>)
FnPopitem == BuiltinFunction(4, new_identity(2))
\* BuiltinFunction::ret_ty
ret_ty(func) ==
    CASE func = 1 -> BoundVar(0)
      [] func = 2 -> BoundVar(1)
      [] func = 4 -> Tuple(<<BoundVar(0), BoundVar(1)>>)
      [] OTHER -> string
\* TyKind::builtin_class and the class's fields with builtin_field_types
class_fields(kind) ==
    CASE kind = "List" -> <<[name |-> "pop", ty |-> FnPop]>>
      [] kind = "Dict" -> <<[name |-> "get", ty |-> FnGet],
                            [name |-> "popitem", ty |-> FnPopitem]>>
      [] kind = "String" -> <<[name |-> "upper", ty |-> FnUpper]>>
      [] OTHER -> <<>>

----------------------------------------------------------------------------
(* TyCtxt.  The engine runs inside one with_tcx call; its state is         *)
(*   memo   cx.type_of_expr, a function from the cached ExprIds to Ty      *)
(*   diags  cx.diagnostics                                                 *)
(*   reads  how many times shared_state.cancelled was loaded               *)
(*   flip   the load from which on the flag reads true (0 when it is set   *)
(*          on entry, -1 when no cancel lands during the run).  The flag   *)
(*          cannot go back to false meanwhile: only Drop clears it, and    *)
(*          Drop needs the lock the session holds.                         *)
(*   out    "ok", "cancelled" (TypecheckCancelled is unwinding), "panic"   *)
(*          (another payload is unwinding) or "overflow" (the recursion    *)
(*          went deeper than MaxDepth: the stack is exhausted)             *)
(*   ty     the value the last call returned                               *)
(* An unwinding state passes through every later call unchanged.           *)

Put(f, key, v) == [x \in DOMAIN f \cup {key} |-> IF x = key THEN v ELSE f[x]]
Ret(st, ty) == [st EXCEPT !.ty = ty]
Start(m, ds, flip) ==
    [memo |-> m, diags |-> ds, reads |-> 0, flip |-> flip, out |-> "ok",
     ty |-> NoTy]

\* Display of a type in a message; alt() shows every function the same way
display(ty) == ty
display_alt(ty) ==
    IF ty.k = "BuiltinFunction" THEN Nullary("builtin_function_or_method") ELSE ty
Message(text, what, tys) == [text |-> text, what |-> what, tys |-> tys]

\* TyCtxt::set_expr_type
set_expr_type(st, e, ty) ==
    IF st.out # "ok" THEN st
    ELSE [st EXCEPT !.memo = Put(@, e, ty), !.ty = ty]

\* add_diagnostic that records the message whether or not the range resolves
add_diagnostic_always(st, e, message) ==
    IF st.out # "ok" THEN st
    ELSE [st EXCEPT !.diags = Append(@, [message |-> message,
                                         severity |-> "Error",
                                         range |-> e]),
                    !.ty = unknown]
\* TyCtxt::add_diagnostic
add_diagnostic(st, e, message) ==
    IF st.out # "ok" THEN st
    ELSE IF ~expr_map_back(e) THEN Ret(st, unknown)
    ELSE [st EXCEPT !.diags = Append(@, [message |-> message,
                                         severity |-> "Error",
                                         range |-> e]),
                    !.ty = unknown]

\* TyCtxt::assign_expr_unknown_rec; unknown_children is its walk_child_exprs
RECURSIVE assign_expr_unknown_rec(_, _), unknown_children(_, _, _)
assign_expr_unknown_rec(st, e) ==
    unknown_children(set_expr_type(st, e, unknown), walk_child_exprs(e), 1)
unknown_children(st, exprs, i) ==
    IF i > Len(exprs) THEN st
    ELSE unknown_children(assign_expr_unknown_rec(st, exprs[i]), exprs, i + 1)

\* not_iterable that records the diagnostic and leaves the targets alone
not_iterable_no_targets(st, root, exprs, source_ty) ==
    add_diagnostic(st, root,
        Message("is not iterable", "-", <<display(source_ty)>>))
\* the "not iterable" arm of assign_exprs_source_ty and infer_source_expr_assign
not_iterable(st, root, exprs, source_ty) ==
    unknown_children(
        add_diagnostic(st, root,
            Message("is not iterable", "-", <<display(source_ty)>>)),
        exprs, 1)

\* TyCtxt::assign_expr_source_ty and TyCtxt::assign_exprs_source_ty;
\* assign_each is the loop over exprs with sub_ty
RECURSIVE assign_expr_source_ty(_, _, _, _), assign_exprs_source_ty(_, _, _, _)
RECURSIVE assign_each(_, _, _, _, _)
assign_expr_source_ty(st, root, e, source_ty) ==
    CASE Exprs[e].kind = "Name" -> set_expr_type(st, e, source_ty)
      [] Exprs[e].kind \in {"List", "Tuple"} ->
           assign_exprs_source_ty(st, root, Exprs[e].kids, source_ty)
      [] Exprs[e].kind = "Paren" ->
           assign_expr_source_ty(st, root, Exprs[e].kids[1], source_ty)
      [] OTHER -> st

assign_each(st, root, exprs, i, sub_ty) ==
    IF i > Len(exprs) THEN st
    ELSE assign_each(assign_expr_source_ty(st, root, exprs[i], sub_ty),
                     root, exprs, i + 1, sub_ty)

\* assign_exprs_source_ty for which only a List is iterable
assign_exprs_source_ty_list_only(st, root, exprs, source_ty) ==
    CASE source_ty.k = "List" -> assign_each(st, root, exprs, 1, source_ty.a[1])
      [] OTHER -> not_iterable(st, root, exprs, source_ty)
assign_exprs_source_ty(st, root, exprs, source_ty) ==
    CASE source_ty.k = "List" -> assign_each(st, root, exprs, 1, source_ty.a[1])
      [] source_ty.k \in {"Tuple", "Any"} -> assign_each(st, root, exprs, 1, any)
      [] OTHER -> not_iterable(st, root, exprs, source_ty)

\* self.shared_state.cancelled.load() at the top of infer_expr
FlagRead(st) == st.flip >= 0 /\ st.reads >= st.flip

\* Ty::fields: the receiver's class fields, each Binders instantiated with the
\* receiver's own arguments; <<>> when the kind has no builtin class
fields(ty) ==
    LET subst == CASE ty.k = "List" -> <<ty.a[1]>>
                   [] ty.k = "Dict" -> ty.a
                   [] OTHER -> <<>>
        fs == class_fields(ty.k)
    IN  [i \in 1..Len(fs) |->
            [name |-> fs[i].name, ty |-> substitute(fs[i].ty, subst)]]

\* the top of infer_expr with the two tests in the other order
infer_expr_entry_flag_first(st, e) ==
    IF FlagRead(st) THEN "throw"
    ELSE IF e \in DOMAIN st.memo THEN "hit" ELSE "work"
\* the top of infer_expr without the cancellation test
infer_expr_entry_no_flag(st, e) ==
    IF e \in DOMAIN st.memo THEN "hit" ELSE "work"
\* the top of infer_expr: return the memoized type ("hit"), else throw
\* TypecheckCancelled when the flag is set ("throw"), else infer ("work")
infer_expr_entry(st, e) ==
    IF e \in DOMAIN st.memo THEN "hit"
    ELSE IF FlagRead(st) THEN "throw" ELSE "work"

RECURSIVE infer_expr(_, _, _), infer_source_expr_assign(_, _, _)
RECURSIVE get_common_type(_, _, _, _), common_all(_, _, _, _, _, _)

\* common_next that answers a mismatch with the first element's type
common_next_keep_first(s2, exprs, i, first_ty, default, d) ==
    IF s2.out # "ok" THEN s2
    ELSE IF s2.ty = first_ty THEN common_all(s2, exprs, i + 1, first_ty, default, d)
    ELSE Ret(s2, first_ty)
\* TyCtxt::get_common_type.  common_all is  exprs.map(infer_expr).all(..):
\* Iterator::all stops at the first element whose type differs from the
\* first one's.
common_next(s2, exprs, i, first_ty, default, d) ==
    IF s2.out # "ok" THEN s2
    ELSE IF s2.ty = first_ty THEN common_all(s2, exprs, i + 1, first_ty, default, d)
    ELSE Ret(s2, default)
common_all(st, exprs, i, first_ty, default, d) ==
    IF i > Len(exprs) THEN Ret(st, first_ty)
    ELSE common_next(infer_expr(st, exprs[i], d), exprs, i, first_ty, default, d)
common_first(s1, exprs, default, d) ==
    IF s1.out # "ok" THEN s1
    ELSE common_all(s1, exprs, 2, s1.ty, default, d)
get_common_type(st, exprs, default, d) ==
    IF Len(exprs) = 0 THEN Ret(st, default)
    ELSE common_first(infer_expr(st, exprs[1], d), exprs, default, d)

\* the elements of seq at the positions of the same parity as from
EveryOther(seq, from) ==
    [i \in 1..((Len(seq) + 2 - from) \div 2) |-> seq[2 * (i - 1) + from]]

\* infer_expr, Expr::Name with Declaration::Variable, after
\* infer_source_expr_assign: the type recorded for the declaration's id.
\* This arm returns without set_expr_type.
name_variable(s1, id) ==
    IF s1.out # "ok" THEN s1
    ELSE Ret(s1, IF id \in DOMAIN s1.memo THEN s1.memo[id] ELSE unknown)

\* infer_expr, Expr::Name
infer_name(s0, e, d) ==
    CASE resolve_name(e).d = "None" -> set_expr_type(s0, e, unbound)
      [] resolve_name(e).d = "Variable" ->
           IF resolve_name(e).source = 0 THEN Ret(s0, unknown)
           ELSE name_variable(
                    infer_source_expr_assign(s0, resolve_name(e).source, d),
                    resolve_name(e).id)
      [] resolve_name(e).d \in {"Function", "Parameter", "LoadItem"} ->
           set_expr_type(s0, e, any)
      [] OTHER -> set_expr_type(s0, e, unbound)

\* infer_expr, Expr::List and Expr::Dict, after get_common_type
list_done(s1, e) == set_expr_type(s1, e, List(s1.ty))
\* dict_done with key and value type exchanged
dict_done_swapped(s2, e, key_ty) == set_expr_type(s2, e, Dict(s2.ty, key_ty))
dict_done(s2, e, key_ty) == set_expr_type(s2, e, Dict(key_ty, s2.ty))
dict_values(s1, e, d) ==
    dict_done(get_common_type(s1, EveryOther(Exprs[e].kids, 2), unknown, d),
              e, s1.ty)

\* infer_expr, Expr::Literal
literal_ty(literal) ==
    CASE literal = "Int" -> int
      [] literal = "Float" -> float
      [] literal = "String" -> string
      [] literal = "Bytes" -> bytes
      [] literal = "Bool" -> bool
      [] OTHER -> none

\* the closure  unknown  of infer_unary_expr and infer_binary_expr
not_supported(st, parent, op, tys) ==
    add_diagnostic(st, parent, Message("Operator is not supported for", op, tys))

\* infer_unary_expr without the test for an Any operand
infer_unary_expr_no_any(st, parent, op) ==
    IF st.out # "ok" THEN st
    ELSE CASE op = "Arith" ->
                IF st.ty \in {int, float} THEN Ret(st, st.ty)
                ELSE not_supported(st, parent, op, <<display(st.ty)>>)
           [] op = "Inv" ->
                IF st.ty = int THEN Ret(st, int)
                ELSE not_supported(st, parent, op, <<display(st.ty)>>)
           [] OTHER -> Ret(st, bool)
\* TyCtxt::infer_unary_expr after the operand is inferred (st.ty)
infer_unary_expr(st, parent, op) ==
    IF st.out # "ok" THEN st
    ELSE IF st.ty = any THEN Ret(st, any)
    ELSE CASE op = "Arith" ->
                IF st.ty \in {int, float} THEN Ret(st, st.ty)
                ELSE not_supported(st, parent, op, <<display(st.ty)>>)
           [] op = "Inv" ->
                IF st.ty = int THEN Ret(st, int)
                ELSE not_supported(st, parent, op, <<display(st.ty)>>)
           [] OTHER -> Ret(st, bool)

\* infer_binary_expr without the test for an Any operand
infer_binary_expr_no_any(st, parent, lhs, op) ==
    IF st.out # "ok" THEN st
    ELSE CASE op = "Arith" ->
                IF lhs = int /\ st.ty = int THEN Ret(st, int)
                ELSE IF lhs \in {int, float} /\ st.ty \in {int, float}
                     THEN Ret(st, float)
                ELSE not_supported(st, parent, op, <<display(lhs), display(st.ty)>>)
           [] op = "Bitwise" ->
                IF lhs = int /\ st.ty = int THEN Ret(st, int)
                ELSE not_supported(st, parent, op, <<display(lhs), display(st.ty)>>)
           [] OTHER -> Ret(st, bool)
\* TyCtxt::infer_binary_expr after both operands are inferred (lhs, st.ty)
infer_binary_expr(st, parent, lhs, op) ==
    IF st.out # "ok" THEN st
    ELSE IF lhs = any \/ st.ty = any THEN Ret(st, any)
    ELSE CASE op = "Arith" ->
                IF lhs = int /\ st.ty = int THEN Ret(st, int)
                ELSE IF lhs \in {int, float} /\ st.ty \in {int, float}
                     THEN Ret(st, float)
                ELSE not_supported(st, parent, op, <<display(lhs), display(st.ty)>>)
           [] op = "Bitwise" ->
                IF lhs = int /\ st.ty = int THEN Ret(st, int)
                ELSE not_supported(st, parent, op, <<display(lhs), display(st.ty)>>)
           [] OTHER -> Ret(st, bool)

\* the first field of fs named field, 0 when there is none
find_field(fs, field) ==
    IF \E i \in 1..Len(fs) : fs[i].name = field
    THEN CHOOSE i \in 1..Len(fs) :
             fs[i].name = field /\ \A j \in 1..(i - 1) : fs[j].name # field
    ELSE 0

\* infer_expr, Expr::Dot, after the receiver is inferred (st.ty)
infer_dot(st, e, field) ==
    IF st.out # "ok" THEN st
    ELSE IF \E i \in 1..Len(fields(st.ty)) : fields(st.ty)[i].ty = IndexPanic
         THEN [st EXCEPT !.out = "panic"]
    ELSE IF find_field(fields(st.ty), field) # 0
         THEN Ret(st, fields(st.ty)[find_field(fields(st.ty), field)].ty)
    ELSE add_diagnostic(st, e,
             Message("Cannot access field", field, <<display(st.ty)>>))

\* infer_index that takes any index into a list
infer_index_any_index(st, lhs, lhs_ty) ==
    IF st.out # "ok" THEN st
    ELSE CASE lhs_ty.k = "List" -> Ret(st, lhs_ty.a[1])
           [] lhs_ty.k = "Dict" -> Ret(st, lhs_ty.a[2])
           [] OTHER -> Ret(st, unknown)
\* infer_expr, Expr::Index, after lhs and index are inferred (lhs_ty, st.ty)
infer_index(st, lhs, lhs_ty) ==
    IF st.out # "ok" THEN st
    ELSE CASE lhs_ty.k = "List" /\ st.ty = int -> Ret(st, lhs_ty.a[1])
           [] lhs_ty.k = "List" /\ st.ty # int ->
                add_diagnostic(st, lhs,
                    Message("Cannot index list with type", "-",
                            <<display_alt(st.ty)>>))
           [] lhs_ty.k = "Dict" ->
                IF lhs_ty.a[1] = st.ty THEN Ret(st, lhs_ty.a[2])
                ELSE add_diagnostic(st, lhs,
                         Message("Cannot index dict with type", "-",
                                 <<display_alt(st.ty)>>))
           [] lhs_ty.k \in {"Unknown", "Any"} -> Ret(st, unknown)
           [] OTHER ->
                add_diagnostic(st, lhs,
                    Message("is not indexable", "-", <<display_alt(lhs_ty)>>))

\* infer_call that returns the function's return type as declared
infer_call_declared(st, e) ==
    IF st.out # "ok" THEN st
    ELSE CASE st.ty.k = "BuiltinFunction" -> Ret(st, ret_ty(st.ty.n))
           [] st.ty.k \in {"Unknown", "Any"} -> Ret(st, unknown)
           [] OTHER ->
                add_diagnostic(st, e,
                    Message("is not callable", "-", <<display_alt(st.ty)>>))
\* infer_expr, Expr::Call, after the callee is inferred (st.ty)
infer_call(st, e) ==
    IF st.out # "ok" THEN st
    ELSE CASE st.ty.k = "BuiltinFunction" ->
                IF substitute(ret_ty(st.ty.n), st.ty.a) = IndexPanic
                THEN [st EXCEPT !.out = "panic"]
                ELSE Ret(st, substitute(ret_ty(st.ty.n), st.ty.a))
           [] st.ty.k \in {"Unknown", "Any"} -> Ret(st, unknown)
           [] OTHER ->
                add_diagnostic(st, e,
                    Message("is not callable", "-", <<display_alt(st.ty)>>))

\* the end of infer_expr: self.set_expr_type(file, expr, ty)
infer_done(st, e) == set_expr_type(st, e, st.ty)
\* infer_binary_expr from  let rhs = self.infer_expr(file, rhs)  on; the lhs
\* is inferred (s1.ty)
binary_rhs(s1, e, d) ==
    infer_binary_expr(infer_expr(s1, Exprs[e].kids[2], d), e, s1.ty, Exprs[e].tag)
\* Expr::Index from  let index_ty = self.infer_expr(file, *index)  on
index_index(s1, e, d) ==
    infer_index(infer_expr(s1, Exprs[e].kids[2], d), Exprs[e].kids[1], s1.ty)

\* infer_expr: the match on the expression, reached on a memo miss with the
\* flag clear
infer_match(s0, e, d) ==
    CASE Exprs[e].kind = "Name" -> infer_name(s0, e, d)
      [] Exprs[e].kind = "List" ->
           list_done(get_common_type(s0, Exprs[e].kids, unknown, d), e)
      [] Exprs[e].kind = "ListComp" -> set_expr_type(s0, e, List(any))
      [] Exprs[e].kind = "Dict" ->
           dict_values(get_common_type(s0, EveryOther(Exprs[e].kids, 1), any, d),
                       e, d)
      [] Exprs[e].kind = "DictComp" -> set_expr_type(s0, e, Dict(any, any))
      [] Exprs[e].kind = "Literal" ->
           set_expr_type(s0, e, literal_ty(Exprs[e].tag))
      [] Exprs[e].kind = "Unary" ->
           IF Exprs[e].tag = "-" THEN set_expr_type(s0, e, unknown)
           ELSE infer_done(
                    infer_unary_expr(infer_expr(s0, Exprs[e].kids[1], d), e,
                                     Exprs[e].tag), e)
      [] Exprs[e].kind = "Binary" ->
           IF Exprs[e].tag = "-" THEN set_expr_type(s0, e, unknown)
           ELSE infer_done(binary_rhs(infer_expr(s0, Exprs[e].kids[1], d), e, d), e)
      [] Exprs[e].kind = "Dot" ->
           infer_done(
               infer_dot(infer_expr(s0, Exprs[e].kids[1], d), e, Exprs[e].tag), e)
      [] Exprs[e].kind = "Index" ->
           infer_done(index_index(infer_expr(s0, Exprs[e].kids[1], d), e, d), e)
      [] Exprs[e].kind = "Call" ->
           infer_done(infer_call(infer_expr(s0, Exprs[e].kids[1], d), e), e)
      [] OTHER -> set_expr_type(s0, e, any)

\* TyCtxt::infer_expr.  d is the stack depth left.
infer_expr(st, e, d) ==
    IF st.out # "ok" THEN st
    ELSE IF infer_expr_entry(st, e) = "hit" THEN Ret(st, st.memo[e])
    ELSE IF infer_expr_entry(st, e) = "throw" THEN [st EXCEPT !.out = "cancelled"]
    ELSE IF d = 0 THEN [st EXCEPT !.out = "overflow"]
    ELSE infer_match([st EXCEPT !.reads = @ + 1], e, d - 1)

\* infer_source_expr_assign after  let source_ty = self.infer_expr(file, source)
assign_from_source(s1, source, p) ==
    IF s1.out # "ok" THEN s1
    ELSE CASE p.k = "AssignStmt" /\ p.has ->
                assign_expr_source_ty(s1, p.targets[1], p.targets[1], s1.ty)
           [] p.k = "ForStmt" /\ p.has ->
                CASE s1.ty.k = "List" ->
                       assign_exprs_source_ty(s1, source, p.targets, s1.ty.a[1])
                  [] s1.ty.k \in {"Tuple", "Any"} ->
                       assign_exprs_source_ty(s1, source, p.targets, any)
                  [] OTHER -> not_iterable(s1, source, p.targets, s1.ty)
           [] OTHER -> s1

\* TyCtxt::infer_source_expr_assign
infer_source_expr_assign(st, source, d) ==
    IF ~expr_map_back(source) THEN st
    ELSE assign_from_source(infer_expr(st, source, d), source, ParentOf(source))

\* TyCtxt::infer_all_exprs: every expression of the file, in arena order
RECURSIVE infer_all_from(_, _, _)
infer_all_from(st, e, d) ==
    IF e > Len(Exprs) THEN st
    ELSE infer_all_from(infer_expr(st, e, d), e + 1, d)
infer_all_exprs(st, d) == infer_all_from(st, 1, d)

----------------------------------------------------------------------------
(* GlobalCtxt and CancelGuard.                                             *)

Sessions == 1..NumSessions
EmptyMemo == <<>>
NoCall == [e |-> -1, hit |-> FALSE, flag |-> FALSE, out |-> "-", ty |-> NoTy,
           wrote |-> FALSE, reads |-> 0]
Aborted == \E t \in Sessions : pc[t] = "aborted"

\* Mutex::lock that does not wait
cx_lock_no_wait == TRUE
\* self.cx.lock(): returns once no one else holds the Mutex
cx_lock == ~locked

\* Drop that clears only the diagnostics
default_cx_keep_memo == [type_of_expr |-> memo, diagnostics |-> <<>>]
\* InferenceCtxt::default(), what Drop for CancelGuard stores into *cx
default_cx == [type_of_expr |-> EmptyMemo, diagnostics |-> <<>>]

InitCtl ==
    /\ prog \in {Files[i] : i \in 1..Len(Files)}
    /\ memo = EmptyMemo
    /\ diags = <<>>
    /\ cancelled = FALSE
    /\ locked = FALSE
    /\ pc = [t \in Sessions |-> "idle"]
    /\ held = 0
    /\ dropPc = "-"
    /\ last = NoCall
    /\ stale = FALSE

\* the GlobalCtxt of a database that holds any of the files
InitInfer ==
    /\ prog \in Modules
    /\ memo = EmptyMemo
    /\ diags = <<>>
    /\ cancelled = FALSE
    /\ locked = FALSE
    /\ pc = [t \in Sessions |-> "idle"]
    /\ held = 0
    /\ dropPc = "-"
    /\ last = NoCall
    /\ stale = FALSE

\* with_tcx: let mut cx = self.cx.lock()
Enter(t) ==
    /\ ~Aborted
    /\ pc[t] = "idle"
    /\ cx_lock
    /\ locked' = TRUE
    /\ pc' = [pc EXCEPT ![t] = "in_tcx"]
    /\ UNCHANGED <<prog, memo, diags, cancelled, held, dropPc, last, stale>>
    /\ UNCHANGED ctlOthers

\* what the closure calls: tcx.infer_expr(file, e), or for e = 0
\* tcx.infer_all_exprs(file)
Run(e, flip) ==
    IF e = 0 THEN infer_all_exprs(Start(memo, diags, flip), MaxDepth)
    ELSE infer_expr(Start(memo, diags, flip), e, MaxDepth)

AfterRun(t, e, st) ==
    /\ Len(st.diags) <= MaxDiags
    /\ memo' = st.memo
    /\ diags' = st.diags
    /\ pc' = [pc EXCEPT ![t] = CASE st.out = "ok" -> "in_tcx"
                                 [] st.out = "overflow" -> "aborted"
                                 [] OTHER -> "unwinding"]
    /\ last' = [e |-> e, hit |-> e \in DOMAIN memo, flag |-> st.flip = 0,
                out |-> st.out, ty |-> IF st.out = "ok" THEN st.ty ELSE NoTy,
                wrote |-> st.memo # memo \/ st.diags # diags,
                reads |-> st.reads]

\* a call inside with_tcx during which no GlobalCtxt::cancel happens
Call(t, e) ==
    /\ ~Aborted
    /\ pc[t] = "in_tcx"
    /\ AfterRun(t, e, Run(e, IF cancelled THEN 0 ELSE -1))
    /\ UNCHANGED <<prog, cancelled, locked, held, dropPc, stale>>
    /\ UNCHANGED ctlOthers

\* a call inside with_tcx during which another thread calls
\* GlobalCtxt::cancel: the flag is set after the call has loaded it k times,
\* and a later load of the same call sees it
CallRaced(t, e, k) ==
    /\ ~Aborted
    /\ pc[t] = "in_tcx"
    /\ ~cancelled
    /\ held < MaxGuards
    /\ Run(e, k).out = "cancelled"
    /\ AfterRun(t, e, Run(e, k))
    /\ cancelled' = TRUE
    /\ held' = held + 1
    /\ UNCHANGED <<prog, locked, dropPc, stale>>
    /\ UNCHANGED ctlOthers

\* the closure returns; with_tcx drops the MutexGuard
Leave(t) ==
    /\ ~Aborted
    /\ pc[t] = "in_tcx"
    /\ pc' = [pc EXCEPT ![t] = "idle"]
    /\ locked' = FALSE
    /\ last' = NoCall
    /\ UNCHANGED <<prog, memo, diags, cancelled, held, dropPc, stale>>
    /\ UNCHANGED ctlOthers

\* an unwind that leaves with_tcx with the Mutex still locked
Unwind_keeps_lock(t) ==
    /\ ~Aborted
    /\ pc[t] = "unwinding"
    /\ pc' = [pc EXCEPT ![t] = "idle"]
    /\ last' = NoCall
    /\ UNCHANGED <<prog, memo, diags, cancelled, locked, held, dropPc, stale>>
    /\ UNCHANGED ctlOthers
\* the unwind leaves with_tcx: the MutexGuard is dropped on the way
Unwind(t) ==
    /\ ~Aborted
    /\ pc[t] = "unwinding"
    /\ pc' = [pc EXCEPT ![t] = "idle"]
    /\ locked' = FALSE
    /\ last' = NoCall
    /\ UNCHANGED <<prog, memo, diags, cancelled, held, dropPc, stale>>
    /\ UNCHANGED ctlOthers

\* GlobalCtxt::cancel, CancelGuard::new
Cancel ==
    /\ ~Aborted
    /\ held < MaxGuards
    /\ cancelled' = TRUE
    /\ held' = held + 1
    /\ UNCHANGED <<prog, memo, diags, locked, pc, dropPc, last, stale>>
    /\ UNCHANGED ctlOthers

\* Drop for CancelGuard: let mut cx = self.cx.lock()
DropLock ==
    /\ ~Aborted
    /\ held > 0
    /\ dropPc = "-"
    /\ cx_lock
    /\ locked' = TRUE
    /\ dropPc' = "locked"
    /\ UNCHANGED <<prog, memo, diags, cancelled, pc, held, last, stale>>
    /\ UNCHANGED ctlOthers

\* Drop for CancelGuard: self.gcx.shared_state.cancelled.store(false)
DropStore ==
    /\ ~Aborted
    /\ dropPc = "locked"
    /\ cancelled' = FALSE
    /\ dropPc' = "stored"
    /\ stale' = (memo # EmptyMemo \/ diags # <<>>)
    /\ UNCHANGED <<prog, memo, diags, locked, pc, held, last>>
    /\ UNCHANGED ctlOthers

\* Drop for CancelGuard: *cx = Default::default(), then the MutexGuard drops
DropReset ==
    /\ ~Aborted
    /\ dropPc = "stored"
    /\ memo' = default_cx.type_of_expr
    /\ diags' = default_cx.diagnostics
    /\ stale' = (stale /\ (memo' # EmptyMemo \/ diags' # <<>>))
    /\ locked' = FALSE
    /\ held' = held - 1
    /\ dropPc' = "-"
    /\ UNCHANGED <<prog, cancelled, pc, last>>
    /\ UNCHANGED ctlOthers

----------------------------------------------------------------------------
(* Claims                                                                  *)

\* the sessions and the dropping guard that hold the Mutex
Owners ==
    Cardinality({t \in Sessions : pc[t] # "idle"})
        + (IF dropPc # "-" THEN 1 ELSE 0)
\* some session is inside with_tcx
InSession == \E t \in Sessions : pc[t] = "in_tcx"

\* C1: when the cancelled flag is set and the memo map has no entry for the
\* expression, infer_expr raises TypecheckCancelled and has added no memo
\* entry and no diagnostic.
C1_CancelledMissThrows ==
    (last.e > 0 /\ last.flag /\ ~last.hit)
        => (last.out = "cancelled" /\ ~last.wrote)
C1_Witness ==
    /\ last.e > 0 /\ last.flag /\ ~last.hit
    /\ last.out = "cancelled"
    /\ memo # EmptyMemo

\* C2: when the memo map holds a Ty for the expression, infer_expr returns
\* that Ty and does not raise, whether or not the cancelled flag is set, and
\* it returns before it loads the flag.
C2_MemoHitReturns ==
    (last.e > 0 /\ last.hit)
        => /\ last.out = "ok"
           /\ last.e \in DOMAIN memo
           /\ last.ty = memo[last.e]
           /\ last.reads = 0
           /\ ~last.wrote
C2_Witness ==
    /\ last.e > 0 /\ last.hit /\ last.flag
    /\ cancelled
    /\ last.out = "ok"
    /\ last.ty = int

\* C3: dropping a CancelGuard clears the flag and then empties the whole
\* cache (memo map and diagnostics), both with the Mutex held; so no session
\* is inside with_tcx while the cache holds entries older than the clearing
\* of the flag, and after the drop every infer_expr misses the memo map.
C3_DropResetsUnderLock ==
    /\ [](InSession => ~stale)
    /\ [][(dropPc = "locked" /\ dropPc' = "stored")
             => (locked /\ ~InSession /\ cancelled' = FALSE)]_vars
    /\ [][(dropPc = "stored" /\ dropPc' = "-")
             => (locked /\ ~InSession /\ memo' = EmptyMemo /\ diags' = <<>>)]_vars
C3_Witness ==
    /\ dropPc = "stored"
    /\ stale
    /\ ~cancelled
    /\ memo # EmptyMemo
    /\ diags # <<>>

\* C4: at most one thread is inside with_tcx, the reset of a dropped
\* CancelGuard never runs while a session is inside with_tcx, and the memo
\* map and the diagnostics change only while exactly one owner holds the
\* Mutex.
C4_SingleOwner ==
    /\ [](Owners <= 1 /\ (locked <=> Owners = 1))
    /\ [][(memo' # memo \/ diags' # diags \/ (last' # last /\ last'.e >= 0))
             => (locked /\ Owners = 1)]_vars
C4_Witness ==
    /\ \E t \in Sessions : pc[t] = "in_tcx" /\ \A u \in Sessions \ {t} : pc[u] = "idle"
    /\ held = MaxGuards
    /\ dropPc = "-"
    /\ locked
    /\ memo # EmptyMemo

\* C5: within one generation (no CancelGuard dropped in between) a memo
\* entry is never replaced by a different Ty.
C5_MemoEntryStable ==
    [][\A e \in DOMAIN memo \cap DOMAIN memo' : memo'[e] = memo[e]]_vars

\* the first on call whose R::METHOD is the request's method, 0 when none
FirstMatch ==
    IF \E i \in 1..Len(dChain) : dChain[i] = dOrig.method
    THEN CHOOSE i \in 1..Len(dChain) :
             dChain[i] = dOrig.method /\ \A j \in 1..(i - 1) : dChain[j] # dOrig.method
    ELSE 0
TasksOf(i) == {j \in 1..Len(dDone) : dDone[j].of = i}

\* C6: when the handler's error is Cancelled, the worker produces exactly
\* one Task, a Retry carrying the original request (same id, method and
\* params), and no response.
C6_CancelledRetries ==
    \A j \in 1..Len(dDone) :
        (dDone[j].res.r = "Err" /\ dDone[j].res.v = "Cancelled")
            => /\ dDone[j].task.t = "Retry"
               /\ dDone[j].task.req = <<dOrig>>
               /\ dDone[j].task.kind = "-"
               /\ Cardinality(TasksOf(dDone[j].of)) = 1
C6_Witness ==
    /\ dPc = "finished"
    /\ \E j \in 1..Len(dDone) :
          /\ dDone[j].res = [r |-> "Err", v |-> "Cancelled"]
          /\ dDone[j].task = Retry(dOrig)
          /\ dOrig.params.v = 1

\* C7 as stated: every run of the on calls over a request ends with exactly
\* one closure spawned, the one of the first on call whose method is the
\* request's, or the one of finish when there is none.
C7_AsStated ==
    dPc # "on" => (Len(dSpawned) = 1 /\ dSpawned[1].by = FirstMatch)

\* C7: when the request's params deserialize as the params of the first on
\* call whose method is the request's, or no on call has its method, then
\* after finish exactly one closure was spawned: the one of that on call,
\* and no later on call nor finish acted on the request; when no on call
\* matches, finish's closure answers MethodNotFound with the request's id.
\* When the params do not deserialize, that on call panics, nothing was
\* spawned and finish is not reached.  An on call whose method differs
\* leaves the request in the dispatcher and spawns nothing.
C7_ExactlyOneTask ==
    /\ [](dPc = "finished" =>
            /\ Len(dSpawned) = 1
            /\ dSpawned[1].by = FirstMatch
            /\ dSpawned[1].req = dOrig
            /\ dReq = <<>>
            /\ FirstMatch # 0 =>
                  dSpawned[1].params = from_value(dOrig.method, dOrig.params)
            /\ Cardinality(TasksOf(1)) <= 1
            /\ \A j \in TasksOf(1) :
                  FirstMatch = 0 =>
                      dDone[j].task =
                          ResponseReady(dOrig.id, "err", "MethodNotFound",
                                        <<"method not found">>))
    /\ [](dPc = "panicked" =>
            /\ dPos = FirstMatch
            /\ from_value(dOrig.method, dOrig.params) = <<>>
            /\ dSpawned = <<>>)
    /\ []((dPc = "on" /\ dPos = Len(dChain) /\ FirstMatch # 0) =>
            from_value(dOrig.method, dOrig.params) # <<>>)
    /\ [][(dPos' = dPos + 1 /\ dReq # <<>> /\ dReq[1].method # dChain[dPos + 1])
             => (dReq' = dReq /\ dSpawned' = dSpawned)]_vars
C7_Witness ==
    /\ dPc = "finished"
    /\ Len(dChain) = 3
    /\ FirstMatch = 2
    /\ dChain[3] = dOrig.method
    /\ Len(dSpawned) = 1
    /\ Len(dDone) = 1

\* C8: a handler run ends in exactly one of three outcomes: Ok gives an ok
\* response with the request's id; an error other than Cancelled gives a
\* RequestFailed error response with the request's id and the error's text;
\* Cancelled gives a Retry and no response.
C8_ThreeOutcomes ==
    \A j \in 1..Len(dDone) :
        dSpawned[dDone[j].of].by # 0 =>
            /\ dDone[j].res.r = "Ok" =>
                  dDone[j].task =
                      ResponseReady(dOrig.id, "ok", "-", <<dDone[j].res.v>>)
            /\ (dDone[j].res.r = "Err" /\ dDone[j].res.v # "Cancelled") =>
                  dDone[j].task =
                      ResponseReady(dOrig.id, "err", "RequestFailed",
                                    <<dDone[j].res.v>>)
            /\ (dDone[j].res.r = "Err" /\ dDone[j].res.v = "Cancelled") =>
                  dDone[j].task.t = "Retry"
C8_Witness ==
    \E j \in 1..Len(dDone) :
        /\ dDone[j].res = [r |-> "Err", v |-> "bad position"]
        /\ dDone[j].task.code = "RequestFailed"
        /\ dDone[j].task.id = dOrig.id

\* C9: catch(f) is Ok(t) when f returns t, Err(Salsa) exactly when f unwinds
\* with a salsa::Cancelled, Err(Typecheck) exactly when f unwinds with a
\* TypecheckCancelled, and resumes every other unwind with its payload.
C9_CatchOutcomes ==
    \A c \in Callers :
        cOut[c].r # "-" =>
            /\ cF[c].b = "return" => cOut[c] = [r |-> "Ok", v |-> cF[c].v, p |-> "-"]
            /\ (cOut[c].r = "Err" /\ cOut[c].p = "Salsa")
                  <=> (cF[c].b = "unwind" /\ cF[c].p = "salsa::Cancelled")
            /\ (cOut[c].r = "Err" /\ cOut[c].p = "Typecheck")
                  <=> (cF[c].b = "unwind" /\ cF[c].p = "TypecheckCancelled")
            /\ (cF[c].b = "unwind" /\ cF[c].p = "other")
                  => cOut[c] = [r |-> "resume_unwind", v |-> cF[c].v, p |-> "other"]
C9_Witness ==
    /\ cF[1] = [b |-> "unwind", v |-> 1, p |-> "other"]
    /\ cOut[1].r = "resume_unwind"
    /\ cF[2].p = "TypecheckCancelled"
    /\ cOut[2] = [r |-> "Err", v |-> 0, p |-> "Typecheck"]

\* C10: for every n and every type t whose BoundVar indices are all below n,
\* also those nested in List, Tuple, Dict and a BuiltinFunction's
\* Substitution, substitute(t, new_identity(n).args) is t.
C10_SubstIdentity ==
    (sOut # NoTy /\ sNum >= 0 /\ MaxBoundVar(sTy) < sNum) => sOut = sTy
C10_Witness ==
    /\ sNum = 2
    /\ sTy = List(BuiltinFunction(1, <<BoundVar(1), BoundVar(0)>>))
    /\ sOut = sTy

\* the diagnostics recorded for expression e whose message has this text
DiagsAt(e, text) ==
    {i \in 1..Len(diags) : diags[i].range = e /\ diags[i].message.text = text}
\* the last call was infer_expr on e and it returned
Returned(e) == last.e = e /\ last.out = "ok"
\* e is a name that resolves to a variable bound from a source expression
\* whose syntax parent is of kind k
BoundFrom(e, k) ==
    /\ Exprs[e].kind = "Name"
    /\ resolve_name(e).d = "Variable"
    /\ resolve_name(e).source # 0
    /\ ParentOf(resolve_name(e).source).k = k

\* C11: for a for statement whose iterable infers to List(T), every
\* plain-name target that was assigned holds T and there is no "not
\* iterable" diagnostic; with a Tuple or Any iterable every such target
\* holds Any.
C11_ForTargets ==
    \A s \in ExprIds :
        (ParentOf(s).k = "ForStmt" /\ s \in DOMAIN memo) =>
            \A i \in 1..Len(ParentOf(s).targets) :
                (/\ Exprs[ParentOf(s).targets[i]].kind = "Name"
                 /\ ParentOf(s).targets[i] \in DOMAIN memo) =>
                    /\ memo[s].k = "List" =>
                          /\ memo[ParentOf(s).targets[i]] = memo[s].a[1]
                          /\ DiagsAt(s, "is not iterable") = {}
                    /\ memo[s].k \in {"Tuple", "Any"} =>
                          memo[ParentOf(s).targets[i]] = any

\* the plain-name targets of pattern e, each with the type an assignment
\* from a source of type ty gives it: the type itself for a single name, the
\* element type of a List and Any for a Tuple or Any across a List or Tuple
\* pattern (no statement about another source)
RECURSIVE PatternTargets(_, _)
PatternTargets(e, ty) ==
    CASE Exprs[e].kind = "Name" -> {<<e, ty>>}
      [] Exprs[e].kind \in {"List", "Tuple"} ->
           IF ty.k = "List"
           THEN UNION {PatternTargets(Exprs[e].kids[i], ty.a[1]) :
                          i \in 1..Len(Exprs[e].kids)}
           ELSE IF ty.k \in {"Tuple", "Any"}
           THEN UNION {PatternTargets(Exprs[e].kids[i], any) :
                          i \in 1..Len(Exprs[e].kids)}
           ELSE {}
      [] Exprs[e].kind = "Paren" -> PatternTargets(Exprs[e].kids[1], ty)
      [] OTHER -> {}

\* C12: for an assignment statement whose right-hand side is inferred, a
\* single name target holds the right-hand side's type; across a List or
\* Tuple pattern (nested, parenthesized) a List(T) source gives T and a
\* Tuple or Any source gives Any to every target; and once a name bound by
\* the statement is inferred every such target is assigned and the name's
\* type is its target's.
C12_AssignTargets ==
    /\ \A s \in ExprIds :
          (ParentOf(s).k = "AssignStmt" /\ s \in DOMAIN memo) =>
              \A p \in PatternTargets(ParentOf(s).targets[1], memo[s]) :
                  p[1] \in DOMAIN memo => memo[p[1]] = p[2]
    /\ \A e \in ExprIds :
          (/\ Returned(e)
           /\ BoundFrom(e, "AssignStmt")
           /\ resolve_name(e).source \in DOMAIN memo) =>
              \A p \in PatternTargets(
                          ParentOf(resolve_name(e).source).targets[1],
                          memo[resolve_name(e).source]) :
                  /\ p[1] \in DOMAIN memo
                  /\ p[1] = resolve_name(e).id => last.ty = p[2]
C12_Witness ==
    \E e \in ExprIds :
        /\ Returned(e)
        /\ BoundFrom(e, "AssignStmt")
        /\ resolve_name(e).source \in DOMAIN memo
        /\ memo[resolve_name(e).source] = List(List(int))
        /\ last.ty = int
        /\ \E t \in DOMAIN memo :
              /\ <<t, List(int)>> \in
                     PatternTargets(ParentOf(resolve_name(e).source).targets[1],
                                    memo[resolve_name(e).source])
              /\ memo[t] = List(int)

\* C13: a name bound by a comprehension clause target gets the type a for
\* statement's target gets from the clause's iterable: T for List(T), Any
\* for a Tuple or Any.
C13_CompTargets ==
    \A e \in ExprIds :
        (/\ Returned(e)
         /\ BoundFrom(e, "CompClause")
         /\ resolve_name(e).source \in DOMAIN memo) =>
            /\ memo[resolve_name(e).source].k = "List" =>
                  last.ty = memo[resolve_name(e).source].a[1]
            /\ memo[resolve_name(e).source].k \in {"Tuple", "Any"} =>
                  last.ty = any

\* the one type of S when all of S is one type, otherwise default
SameOr(S, default) ==
    IF \E t \in S : S = {t} THEN CHOOSE t \in S : TRUE ELSE default
\* the types held for the elements of kids at the positions of this parity
TypesAt(kids, parity) ==
    {memo[kids[i]] : i \in {j \in 1..Len(kids) : j % 2 = parity}}
\* every child of e holds a type
KidsInferred(e) == \A i \in 1..Len(Exprs[e].kids) : Exprs[e].kids[i] \in DOMAIN memo

\* C14: a list literal holds List(T) when all its elements hold the same
\* type T and List(Unknown) otherwise; a list comprehension holds List(Any).
C14_ListLiteral ==
    \A e \in DOMAIN memo :
        /\ (Exprs[e].kind = "List" /\ KidsInferred(e)) =>
              memo[e] = List(SameOr(TypesAt(Exprs[e].kids, 0)
                                      \cup TypesAt(Exprs[e].kids, 1), unknown))
        /\ Exprs[e].kind = "ListComp" => memo[e] = List(any)
C14_Witness ==
    \E e \in DOMAIN memo :
        /\ Exprs[e].kind = "List"
        /\ Len(Exprs[e].kids) = 3
        /\ KidsInferred(e)
        /\ memo[Exprs[e].kids[1]] = int
        /\ memo[Exprs[e].kids[2]] = int
        /\ memo[Exprs[e].kids[3]] = string
        /\ memo[e] = List(unknown)

\* C15: a dict literal holds Dict(K, V): K the type of all keys when they
\* are one type and Any otherwise, V the type of all values when they are
\* one type and Unknown otherwise, each judged on its own.
C15_DictLiteral ==
    \A e \in DOMAIN memo :
        (Exprs[e].kind = "Dict" /\ KidsInferred(e)) =>
            memo[e] = Dict(SameOr(TypesAt(Exprs[e].kids, 1), any),
                           SameOr(TypesAt(Exprs[e].kids, 0), unknown))
C15_Witness ==
    \E e \in DOMAIN memo :
        /\ Exprs[e].kind = "Dict"
        /\ Len(Exprs[e].kids) = 4
        /\ KidsInferred(e)
        /\ memo[Exprs[e].kids[1]] = int
        /\ memo[Exprs[e].kids[3]] = int
        /\ memo[Exprs[e].kids[2]] = string
        /\ memo[Exprs[e].kids[4]] = float
        /\ memo[e] = Dict(int, unknown)

\* the diagnostics an Index, a Unary or Binary, a Call expression can raise
IndexTexts ==
    {"Cannot index list with type", "Cannot index dict with type",
     "is not indexable"}
DiagsIn(e, texts) == UNION {DiagsAt(e, t) : t \in texts}
\* exactly one diagnostic of texts is recorded at e, and it says text about tys
OneDiag(e, texts, text, tys) ==
    expr_map_back(e) =>
        /\ Cardinality(DiagsIn(e, texts)) = 1
        /\ \A i \in DiagsIn(e, texts) :
              /\ diags[i].message.text = text
              /\ diags[i].message.tys = tys
              /\ diags[i].severity = "Error"

\* C16: indexing List(T) with an Int holds T; List(T) with another index
\* holds Unknown with one diagnostic; Dict(K, V) holds V when the index type
\* is K and Unknown with one diagnostic otherwise; an Unknown or Any receiver
\* holds Unknown with no diagnostic; any other receiver holds Unknown with
\* one "not indexable" diagnostic.  The diagnostic is recorded at the receiver.
C16_Index ==
    \A e \in DOMAIN memo :
        (Exprs[e].kind = "Index" /\ KidsInferred(e)) =>
            LET lhs == Exprs[e].kids[1]
                l == memo[lhs]
                i == memo[Exprs[e].kids[2]]
            IN  CASE l.k = "List" /\ i = int ->
                       memo[e] = l.a[1] /\ DiagsIn(lhs, IndexTexts) = {}
                  [] l.k = "List" /\ i # int ->
                       /\ memo[e] = unknown
                       /\ OneDiag(lhs, IndexTexts, "Cannot index list with type",
                                  <<display_alt(i)>>)
                  [] l.k = "Dict" /\ i = l.a[1] ->
                       memo[e] = l.a[2] /\ DiagsIn(lhs, IndexTexts) = {}
                  [] l.k = "Dict" /\ i # l.a[1] ->
                       /\ memo[e] = unknown
                       /\ OneDiag(lhs, IndexTexts, "Cannot index dict with type",
                                  <<display_alt(i)>>)
                  [] l.k \in {"Unknown", "Any"} ->
                       memo[e] = unknown /\ DiagsIn(lhs, IndexTexts) = {}
                  [] OTHER ->
                       /\ memo[e] = unknown
                       /\ OneDiag(lhs, IndexTexts, "is not indexable",
                                  <<display_alt(l)>>)
C16_Witness ==
    \E e \in DOMAIN memo :
        /\ Exprs[e].kind = "Index"
        /\ KidsInferred(e)
        /\ memo[Exprs[e].kids[1]] = Dict(int, string)
        /\ memo[Exprs[e].kids[2]] = string
        /\ memo[e] = unknown
        /\ Cardinality(DiagsAt(Exprs[e].kids[1], "Cannot index dict with type")) = 1

OperatorTexts == {"Operator is not supported for"}

\* C17: a binary operation with an Any operand holds Any with no diagnostic;
\* otherwise arithmetic holds Int for Int and Int, Float for the other mixes
\* of Int and Float, and Unknown with a diagnostic for anything else;
\* bitwise holds Int for Int and Int and Unknown with a diagnostic
\* otherwise; every other operator holds Bool.
C17_Binary ==
    \A e \in DOMAIN memo :
        (Exprs[e].kind = "Binary" /\ Exprs[e].tag # "-" /\ KidsInferred(e)) =>
            LET l == memo[Exprs[e].kids[1]]
                r == memo[Exprs[e].kids[2]]
                op == Exprs[e].tag
                fails == /\ memo[e] = unknown
                         /\ OneDiag(e, OperatorTexts,
                                    "Operator is not supported for",
                                    <<display(l), display(r)>>)
                quiet == DiagsIn(e, OperatorTexts) = {}
            IN  CASE l = any \/ r = any -> memo[e] = any /\ quiet
                  [] l # any /\ r # any /\ op = "Arith" ->
                       IF l = int /\ r = int THEN memo[e] = int /\ quiet
                       ELSE IF {l, r} \subseteq {int, float}
                            THEN memo[e] = float /\ quiet
                       ELSE fails
                  [] l # any /\ r # any /\ op = "Bitwise" ->
                       IF l = int /\ r = int THEN memo[e] = int /\ quiet
                       ELSE fails
                  [] OTHER -> memo[e] = bool /\ quiet
C17_Witness ==
    \E e \in DOMAIN memo :
        /\ Exprs[e].kind = "Binary"
        /\ Exprs[e].tag = "Arith"
        /\ KidsInferred(e)
        /\ memo[Exprs[e].kids[1]] = float
        /\ memo[Exprs[e].kids[2]] = int
        /\ memo[e] = float
        /\ DiagsIn(e, OperatorTexts) = {}

\* the unary rules for an operand that is not Any
UnaryRule(e, t) ==
    LET fails == /\ memo[e] = unknown
                 /\ OneDiag(e, OperatorTexts, "Operator is not supported for",
                            <<display(t)>>)
        quiet == DiagsIn(e, OperatorTexts) = {}
    IN  CASE Exprs[e].tag = "Not" -> memo[e] = bool /\ quiet
          [] Exprs[e].tag = "Arith" ->
               IF t \in {int, float} THEN memo[e] = t /\ quiet ELSE fails
          [] Exprs[e].tag = "Inv" ->
               IF t = int THEN memo[e] = int /\ quiet ELSE fails
          [] OTHER -> FALSE
UnaryDone(e) ==
    Exprs[e].kind = "Unary" /\ Exprs[e].tag # "-" /\ KidsInferred(e)

\* C18 as stated: "not" holds Bool whatever the operand's type; negation
\* echoes Int and Float; invert holds Int for Int; every other operand type
\* of those two holds Unknown with an "operator not supported" diagnostic.
C18_AsStated ==
    \A e \in DOMAIN memo :
        UnaryDone(e) => UnaryRule(e, memo[Exprs[e].kids[1]])
\* C18: an Any operand makes every unary operation, "not" included, hold Any
\* with no diagnostic; for every other operand type "not" holds Bool,
\* negation echoes Int and Float, invert holds Int for Int, and the rest of
\* negation and invert holds Unknown with an "operator not supported"
\* diagnostic.
C18_Unary ==
    \A e \in DOMAIN memo :
        UnaryDone(e) =>
            IF memo[Exprs[e].kids[1]] = any
            THEN memo[e] = any /\ DiagsIn(e, OperatorTexts) = {}
            ELSE UnaryRule(e, memo[Exprs[e].kids[1]])
C18_Witness ==
    \E e \in DOMAIN memo :
        /\ UnaryDone(e)
        /\ Exprs[e].tag = "Not"
        /\ memo[Exprs[e].kids[1]] = any
        /\ memo[e] = any

\* the declared return type ty with each BoundVar(i) at the top or one level
\* down replaced by args[i], counting from zero
Replaced(ty, args) ==
    LET one(t) == IF t.k = "BoundVar" THEN args[t.n + 1] ELSE t
    IN  IF ty.k = "BoundVar" THEN one(ty)
        ELSE [ty EXCEPT !.a = [i \in DOMAIN ty.a |-> one(ty.a[i])]]
CallTexts == {"is not callable"}

\* C19: a call whose callee holds BuiltinFunction(f, subst) holds f's return
\* type with every BoundVar(i) replaced by subst.args[i]; a call on an
\* Unknown or Any callee holds Unknown with no diagnostic; a call on any
\* other callee holds Unknown with one "not callable" diagnostic.
C19_Call ==
    \A e \in DOMAIN memo :
        (Exprs[e].kind = "Call" /\ KidsInferred(e)) =>
            LET c == memo[Exprs[e].kids[1]]
            IN  CASE c.k = "BuiltinFunction" ->
                       /\ memo[e] = Replaced(ret_ty(c.n), c.a)
                       /\ DiagsIn(e, CallTexts) = {}
                  [] c.k \in {"Unknown", "Any"} ->
                       memo[e] = unknown /\ DiagsIn(e, CallTexts) = {}
                  [] OTHER ->
                       /\ memo[e] = unknown
                       /\ OneDiag(e, CallTexts, "is not callable",
                                  <<display_alt(c)>>)
C19_Witness ==
    \E e \in DOMAIN memo :
        /\ Exprs[e].kind = "Call"
        /\ KidsInferred(e)
        /\ memo[Exprs[e].kids[1]] = BuiltinFunction(1, <<int>>)
        /\ ret_ty(1) = BoundVar(0)
        /\ memo[e] = int

\* the step infers the call e on a callee that is no function, Unknown or Any:
\* the one add_diagnostic of the step is the call's own
RaisesNotCallable(e) ==
    /\ Exprs[e].kind = "Call"
    /\ KidsInferred(e)
    /\ memo[Exprs[e].kids[1]].k \notin {"BuiltinFunction", "Unknown", "Any"}
    /\ e \notin DOMAIN memo
    /\ e \in DOMAIN memo'
    /\ last'.e = e

\* C20: add_diagnostic never fails.  When the expression has no source range
\* it returns Unknown and leaves the diagnostics as they are; otherwise it
\* appends exactly one diagnostic, of severity Error, with the given message
\* and the expression's range, and returns Unknown.
C20_AddDiagnostic ==
    [][\A e \in ExprIds :
          RaisesNotCallable(e) =>
              /\ last'.out = "ok"
              /\ last'.ty = unknown
              /\ memo'[e] = unknown
              /\ diags' =
                    IF expr_map_back(e)
                    THEN Append(diags,
                             [message |-> Message("is not callable", "-",
                                  <<display_alt(memo[Exprs[e].kids[1]])>>),
                              severity |-> "Error",
                              range |-> e])
                    ELSE diags]_vars
C20_Witness ==
    \E e \in DOMAIN memo :
        /\ Exprs[e].kind = "Call"
        /\ ~expr_map_back(e)
        /\ KidsInferred(e)
        /\ memo[Exprs[e].kids[1]] = int
        /\ memo[e] = unknown
        /\ last.e = e
        /\ last.out = "ok"
        /\ diags = <<>>

\* C21: after infer_expr on a name whose last declaration is a variable
\* bound to a source expression returns, the memo map holds the returned
\* type under the name's own id.
C21_NameCached ==
    \A e \in ExprIds :
        (/\ Returned(e)
         /\ Exprs[e].kind = "Name"
         /\ resolve_name(e).d = "Variable"
         /\ resolve_name(e).source # 0) =>
            /\ e \in DOMAIN memo
            /\ memo[e] = last.ty

\* C22: after infer_expr on a list or dict literal returns, every element,
\* key and value of the literal has a memo entry.
C22_ElementsInferred ==
    \A e \in ExprIds :
        (Returned(e) /\ Exprs[e].kind \in {"List", "Dict"}) => KidsInferred(e)

\* e and every transitive sub-expression of e
RECURSIVE Descendants(_)
Descendants(e) ==
    {e} \cup UNION {Descendants(Exprs[e].kids[i]) : i \in 1..Len(Exprs[e].kids)}
\* e without the parentheses around it
RECURSIVE Unparen(_)
Unparen(e) == IF Exprs[e].kind = "Paren" THEN Unparen(Exprs[e].kids[1]) ELSE e
\* the binding whose source is s destructures: a for statement, or an
\* assignment whose left-hand side is a List or Tuple pattern
Destructures(s) ==
    /\ ParentOf(s).has
    /\ \/ ParentOf(s).k = "ForStmt"
       \/ /\ ParentOf(s).k = "AssignStmt"
          /\ Exprs[Unparen(ParentOf(s).targets[1])].kind \in {"List", "Tuple"}
\* the targets of that binding, and the expression its diagnostic is put on
TargetsOf(s) ==
    IF ParentOf(s).k = "ForStmt"
    THEN {ParentOf(s).targets[i] : i \in 1..Len(ParentOf(s).targets)}
    ELSE {Exprs[Unparen(ParentOf(s).targets[1])].kids[i] :
             i \in 1..Len(Exprs[Unparen(ParentOf(s).targets[1])].kids)}
RootOf(s) == IF ParentOf(s).k = "ForStmt" THEN s ELSE ParentOf(s).targets[1]
\* infer_expr on the name e returned, and e is bound by a destructuring
\* binding whose source holds a type that is not List, Tuple or Any
BoundNotIterable(e) ==
    /\ Returned(e)
    /\ Exprs[e].kind = "Name"
    /\ resolve_name(e).d = "Variable"
    /\ resolve_name(e).source # 0
    /\ expr_map_back(resolve_name(e).source)
    /\ Destructures(resolve_name(e).source)
    /\ resolve_name(e).source \in DOMAIN memo
    /\ memo[resolve_name(e).source].k \notin {"List", "Tuple", "Any"}

\* C23: when the source of an assignment or for binding that destructures
\* holds a type other than List, Tuple or Any, then once a name bound by it
\* is inferred a "not iterable" diagnostic is recorded and every target and
\* every transitive sub-expression of every target holds Unknown.
C23_NotIterable ==
    \A e \in ExprIds :
        BoundNotIterable(e) =>
            /\ expr_map_back(RootOf(resolve_name(e).source)) =>
                  DiagsAt(RootOf(resolve_name(e).source), "is not iterable") # {}
            /\ \A t \in TargetsOf(resolve_name(e).source) :
                  \A x \in Descendants(t) :
                      x \in DOMAIN memo /\ memo[x] = unknown
C23_Witness ==
    \E e \in ExprIds :
        /\ BoundNotIterable(e)
        /\ memo[resolve_name(e).source] = int
        /\ DiagsAt(RootOf(resolve_name(e).source), "is not iterable") # {}
        /\ \E t \in TargetsOf(resolve_name(e).source) :
              /\ Exprs[t].kind = "Index"
              /\ resolve_name(Exprs[t].kids[1]).d = "Parameter"
              /\ memo[Exprs[t].kids[1]] = unknown

\* the CancelGuards that are held and whose drop has not begun
GuardsHeld == held - (IF dropPc = "-" THEN 0 ELSE 1)

\* C24: while at least one CancelGuard is held the cancelled flag reads
\* true, also when the guards of several GlobalCtxt::cancel calls overlap.
C24_FlagWhileHeld == GuardsHeld > 0 => cancelled

\* C25: once the flag is set by a CancelGuard, every session inside with_tcx
\* leaves it, by returning or by unwinding, and the lock is free when it has
\* left; a drop of a guard then gets the lock, and the drop that has the
\* lock completes the reset and frees the lock.
C25_CancelDrains ==
    /\ \A t \in Sessions :
          (cancelled /\ pc[t] # "idle") ~> (pc[t] = "idle" /\ ~locked)
    /\ cancelled ~> (dropPc = "stored" /\ locked /\ ~InSession)
    /\ (dropPc = "stored") ~>
          (dropPc = "-" /\ ~locked /\ memo = EmptyMemo /\ diags = <<>>)
C25_Witness ==
    /\ \E t \in Sessions : pc[t] = "unwinding"
    /\ last.out = "cancelled"
    /\ cancelled
    /\ locked
    /\ held > 0
    /\ dropPc = "-"

\* C26: within one session a second infer_expr on the same expression
\* returns the type the first returned and leaves the memo map and the
\* diagnostics as they are; and after infer_all_exprs no two diagnostics
\* have the same message and range.
C26_Repeatable ==
    /\ [][(/\ last.e > 0
           /\ last.out = "ok"
           /\ last'.e = last.e
           /\ last'.out = "ok") =>
              (last'.ty = last.ty /\ memo' = memo /\ diags' = diags)]_vars
    /\ []((last.e = 0 /\ last.out = "ok") =>
             \A i, j \in 1..Len(diags) :
                 (/\ diags[i].message = diags[j].message
                  /\ diags[i].range = diags[j].range) => i = j)

\* C27: infer_expr returns a type or raises cancellation after finitely many
\* recursive calls, whatever the expressions and the resolver's answers: no
\* call exhausts the stack.
C27_InferTerminates ==
    /\ last.out # "overflow"
    /\ \A t \in Sessions : pc[t] # "aborted"

\* the bound-variable indices that occur in the signature
SignatureVars ==
    {MaxBoundVar(fRet)}
      \cup {MaxBoundVar(fParams[i].ty) :
               i \in {j \in 1..Len(fParams) : fParams[j].kind # "KwargsDict"}}

\* C28: the identity substitution Function::ty attaches to a generic
\* function has an argument for every bound-variable index of the function's
\* parameter and return types, nested ones included, so instantiating the
\* return type with it never indexes out of range.
C28_IdentityCovers ==
    /\ fTy # NoTy => \A i \in SignatureVars : i < Len(fTy.a)
    /\ fOut # IndexPanic

----------------------------------------------------------------------------
(* Specifications                                                          *)

SubstIdle == sTy = int /\ sArgs = <<>> /\ sNum = 0 /\ sOut = NoTy
FnIdle == fParams = <<>> /\ fRet = int /\ fTy = NoTy /\ fOut = NoTy
CatchIdle ==
    /\ cF = [c \in Callers |-> [b |-> "return", v |-> 0, p |-> "-"]]
    /\ cOut = [c \in Callers |-> CHOOSE x \in NotCalled : TRUE]
DispatchIdle ==
    /\ dOrig = [id |-> 1, method |-> "workspace/symbol",
                params |-> [shape |-> "HoverParams", v |-> 0]]
    /\ dChain = <<>>
    /\ dReq = <<>>
    /\ dPos = 0
    /\ dPc = "finished"
    /\ dSpawned = <<>>
    /\ dDone = <<>>
CtlIdle ==
    /\ prog = Files[1]
    /\ memo = EmptyMemo
    /\ diags = <<>>
    /\ cancelled = FALSE
    /\ locked = FALSE
    /\ pc = [t \in Sessions |-> "idle"]
    /\ held = 0
    /\ dropPc = "-"
    /\ last = NoCall
    /\ stale = FALSE

InitS == InitSubst /\ CatchIdle /\ DispatchIdle /\ CtlIdle /\ FnIdle
NextSubst == Substitute
SpecSubst == InitS /\ [][NextSubst]_vars

InitC == InitCatch /\ SubstIdle /\ DispatchIdle /\ CtlIdle /\ FnIdle
NextCatch == \E c \in Callers : Catch(c)
SpecCatch == InitC /\ [][NextCatch]_vars

InitD == InitDispatch /\ SubstIdle /\ CatchIdle /\ CtlIdle /\ FnIdle
NextDispatch ==
    \/ On
    \/ Finish
    \/ \E i \in 1..(MaxHandlers + 1), res \in HandlerResults : Work(i, res)
    \/ \E i \in 1..(MaxHandlers + 1) : WorkNotFound(i)
SpecDispatch == InitD /\ [][NextDispatch]_vars

\* one session, no cancellation, over every file
InitI == InitInfer /\ SubstIdle /\ CatchIdle /\ DispatchIdle /\ FnIdle
NextInfer ==
    \/ Enter(1)
    \/ \E e \in {0} \cup ExprIds : Call(1, e)
    \/ Leave(1)
SpecInfer == InitI /\ [][NextInfer]_vars

Init == InitCtl /\ SubstIdle /\ CatchIdle /\ DispatchIdle /\ FnIdle
Next ==
    \/ \E t \in Sessions : Enter(t)
    \/ \E t \in Sessions, e \in {0} \cup ExprIds : Call(t, e)
    \/ \E t \in Sessions, e \in {0} \cup ExprIds, k \in 1..MaxFlip :
          CallRaced(t, e, k)
    \/ \E t \in Sessions : Leave(t)
    \/ \E t \in Sessions : Unwind(t)
    \/ Cancel
    \/ DropLock
    \/ DropStore
    \/ DropReset
Spec == Init /\ [][Next]_vars

\* The same program with the scheduling the code relies on: the closure
\* given to with_tcx returns after finitely many calls, an unwind runs to the
\* catch point, a thread that drops a CancelGuard gets the Mutex once it is
\* free often enough (parking_lot hands a contended lock over), and a drop
\* that has the lock runs to its end.
Fairness ==
    /\ \A t \in Sessions : WF_vars(Leave(t))
    /\ \A t \in Sessions : WF_vars(Unwind(t))
    /\ SF_vars(DropLock)
    /\ WF_vars(DropStore)
    /\ WF_vars(DropReset)
SpecLive == Init /\ [][Next]_vars /\ Fairness

InitF == InitFunction /\ SubstIdle /\ CatchIdle /\ DispatchIdle /\ CtlIdle
NextFunction ==
    \/ FunctionTy
    \/ Instantiate
SpecFunction == InitF /\ [][NextFunction]_vars

====
